---- MODULE Spec2Model ----
(***************************************************************************)
(* Model of the Website component (src/serverless.js): the deploy          *)
(* operation `default` and the `remove` operation, one action per awaited  *)
(* step, together with the collaborators they drive: the two aws-s3 child  *)
(* components (websiteBucket, redirectBucket), the bucket and DNS helpers  *)
(* of ./utils, the file system, the build hook and the state store.        *)
(***************************************************************************)
EXTENDS Integers, Sequences, FiniteSets, TLC

VARIABLES
    pc,         \* pc[p]: the step invocation p is about to run
    op,         \* op[p]: the operation invocation p runs ("default" / "remove")
    inputs,     \* inputs[p]: the inputs object of default, as normalised
    state,      \* state[p]: this.state of invocation p (in memory)
    persisted,  \* the Website state record in the state store
    child,      \* persisted state (bucket name) of the two child components
    buckets,    \* the provider's buckets: name -> website configuration
    records,    \* the provider's DNS alias records: name -> region
    files,      \* the local files written by default: path -> content
    calls,      \* calls[p]: collaborator calls completed in the current run
    outputs,    \* outputs[p]: the value returned by the last completed run
    error,      \* error[p]: the error thrown by the last aborted run
    idCount,    \* number of identifiers context.resourceId() has handed out
    failures,   \* number of awaited calls that have rejected so far
    before      \* before[p]: the store and the provider as the deploy p runs found them

vars == <<pc, op, inputs, state, persisted, child, buckets, records, files,
          calls, outputs, error, idCount, failures, before>>

----------------------------------------------------------------------------
(* Bounds of the model *)

\* number of identifiers context.resourceId() may hand out in one behaviour
MaxResourceIds == 1

\* number of awaited calls that may reject in one behaviour
MaxFailures == 1

----------------------------------------------------------------------------
(* Values *)

Procs == {1, 2}

\* JavaScript's undefined (an absent property)
Undefined == "undefined"

\* JavaScript truthiness of a string-or-undefined value
Truthy(v) == v # Undefined /\ v # ""

\* the domains a caller may request: two unrelated ones, and one that is
\* the www. alias of another
Domains == {"a.com", "www.a.com", "b.com"}

Regions == {"us-east-1", "eu-west-1"}

DefaultRegion == "us-east-1"

\* process.cwd()
Cwd == "/cwd"

Hook == "npm run build"

\* env mappings: whether inputs.env is present, and its entries as a
\* sequence of <<key, value>> in property order
NoEnv == [present |-> FALSE, entries |-> << >>]

EmptyEnv == [present |-> TRUE, entries |-> << >>]

ApiEnv == [present |-> TRUE, entries |-> << <<"API", "https://x">> >>]

TwoEnv ==
    [present |-> TRUE,
     entries |-> << <<"API", "https://x">>, <<"MODE", "prod">> >>]

Envs == {NoEnv, EmptyEnv, ApiEnv, TwoEnv}

\* the code objects a caller passes
PlainCode == [root |-> Undefined, src |-> Undefined, hook |-> Undefined]

BuiltCode == [root |-> Undefined, src |-> "dist", hook |-> Hook]

Codes == {PlainCode, BuiltCode}

\* the inputs a caller may pass to default
RawInputs ==
    [domain : Domains \cup {Undefined},
     region : Regions \cup {Undefined},
     env    : Envs,
     code   : Codes]

\* the inputs drawn where awaited calls may fail: a bare site, and one with
\* an env bundle and a build hook, each with no domain or an unrelated one,
\* in the default region (by omission) or in another one
FailInputs ==
    { r \in RawInputs :
        /\ r.domain \in {Undefined, "a.com", "b.com"}
        /\ r.region # DefaultRegion
        /\ \/ r.env = NoEnv /\ r.code = PlainCode
           \/ r.env = ApiEnv /\ r.code = BuiltCode }

\* this.state = {}
EmptyState ==
    [bucketName |-> Undefined, domain |-> Undefined,
     region |-> Undefined, url |-> Undefined]

NoInputs ==
    [domain |-> Undefined, region |-> Undefined, env |-> NoEnv,
     code |-> [root |-> Undefined, src |-> Undefined, hook |-> Undefined],
     bucketName |-> Undefined]

NoOutputs == [url |-> Undefined, env |-> EmptyEnv, domain |-> Undefined]

NoChild == [websiteBucket |-> Undefined, redirectBucket |-> Undefined]

EmptyMap == [x \in {} |-> Undefined]

\* what a run finds when it starts: the stored state and the provider's
\* resources
NoSnapshot == [persisted |-> EmptyState, buckets |-> EmptyMap, records |-> EmptyMap]

Snapshot == [persisted |-> persisted, buckets |-> buckets, records |-> records]

----------------------------------------------------------------------------
(* Pure helpers *)

\* `www.${domain}`
Www(d) == "www." \o d

\* path.join(a, b)
PathJoin(a, b) == a \o "/" \o b

\* path.resolve(root) of a relative path
PathResolve(r) == PathJoin(Cwd, r)

\* this.context.resourceId(): the n-th generated identifier
ResourceId(n) == "website-" \o ToString(n)

\* faulty variant: the value is written as it is, without encoding
JSONStringifyRaw(v) == v

\* JSON.stringify of a string value
JSONStringify(v) == "\"" \o v \o "\""

\* the website endpoint of a bucket
WebsiteUrl(name, region) ==
    "http://" \o name \o ".s3-website-" \o region \o ".amazonaws.com"

\* faulty variant: the requested domain takes precedence over the persisted name
ResolveBucketNameDomainFirst(st, domain, n) ==
    IF Truthy(domain) THEN domain
    ELSE IF Truthy(st.bucketName) THEN st.bucketName
    ELSE ResourceId(n)

\* the bucket name default resolves
ResolveBucketName(st, domain, n) ==
    IF Truthy(st.bucketName) THEN st.bucketName
    ELSE IF Truthy(domain) THEN domain
    ELSE ResourceId(n)

\* whether resolving the bucket name calls context.resourceId()
NeedsResourceId(st, domain) == ~Truthy(st.bucketName) /\ ~Truthy(domain)

\* faulty variant: an omitted region is left as it was passed
ResolveRegionKept(region) == region

\* the region default resolves
ResolveRegion(region) == IF Truthy(region) THEN region ELSE DefaultRegion

\* inputs.code after normalisation
ResolveCode(code) ==
    LET root == IF Truthy(code.root) THEN PathResolve(code.root) ELSE Cwd
    IN  [root |-> root,
         src  |-> IF Truthy(code.src) THEN PathJoin(root, code.src) ELSE code.src,
         hook |-> code.hook]

\* the inputs object after the normalisation at the top of default
Normalize(raw, st, n) ==
    [domain     |-> raw.domain,
     region     |-> ResolveRegion(raw.region),
     env        |-> raw.env,
     code       |-> ResolveCode(raw.code),
     bucketName |-> ResolveBucketName(st, raw.domain, n)]

\* the env.js script built from an env mapping
RECURSIVE EnvLines(_)
EnvLines(entries) ==
    IF entries = << >> THEN ""
    ELSE "window.env." \o Head(entries)[1] \o " = "
            \o JSONStringify(Head(entries)[2]) \o ";\n"
            \o EnvLines(Tail(entries))

EnvScript(env) == "window.env = {};\n" \o EnvLines(env.entries)

\* whether default writes the env bundle
WritesEnv(inp) ==
    /\ inp.env.present
    /\ Len(inp.env.entries) # 0
    /\ Truthy(inp.code.root)

\* whether default runs the drift cleanup
Drift(st, inp) == Truthy(st.domain) /\ st.domain # inp.domain

\* a completed collaborator call
Call(fn, name, arg, action) ==
    [fn |-> fn, name |-> name, arg |-> arg, action |-> action]

----------------------------------------------------------------------------
(* Collaborators: provider side *)

\* a function with key k set to v
Put(f, k, v) == [x \in DOMAIN f \cup {k} |-> IF x = k THEN v ELSE f[x]]

\* a function without key k
Drop(f, k) == [x \in DOMAIN f \ {k} |-> f[x]]

\* a bucket as created: no website configuration
NewBucket == [website |-> Undefined, target |-> Undefined]

\* aws-s3 default: ensure the bucket `name` exists; a bucket of another
\* name the component held before is removed
BucketDeploy(bs, old, name) ==
    LET base == IF Truthy(old) /\ old # name THEN Drop(bs, old) ELSE bs
    IN  IF name \in DOMAIN base
        THEN base
        ELSE Put(base, name, NewBucket)

\* aws-s3 remove: delete the bucket the component holds, if any
BucketRemove(bs, old) == IF Truthy(old) THEN Drop(bs, old) ELSE bs

\* utils configureDomainForBucket: upsert or delete the alias record
ConfigureDomain(rs, domain, region, action) ==
    IF action = "DELETE" THEN Drop(rs, domain) ELSE Put(rs, domain, region)

----------------------------------------------------------------------------
(* Control flow of default after each optional block *)

\* faulty variant: the build hook is never run
AfterEnvSkippingHook(inp) == "upload"

AfterEnv(inp) == IF Truthy(inp.code.hook) THEN "exec" ELSE "upload"

AfterDrift(inp) == IF WritesEnv(inp) THEN "writeFile" ELSE AfterEnv(inp)

AfterDomain(st, inp) ==
    IF Drift(st, inp) THEN "unbindDomain" ELSE AfterDrift(inp)

\* faulty variant: the drift check runs ahead of the domain block
AfterHostingDriftFirst(st, inp) ==
    IF Drift(st, inp) THEN "unbindDomain"
    ELSE IF Truthy(inp.domain) THEN "redirectBucket" ELSE AfterDrift(inp)

AfterHosting(st, inp) ==
    IF Truthy(inp.domain) THEN "redirectBucket" ELSE AfterDomain(st, inp)

\* the invocation has returned or thrown
Finished == {"done", "failed"}

Goto(p, l) == pc' = [pc EXCEPT ![p] = l]

Log(p, c) == calls' = [calls EXCEPT ![p] = Append(@, c)]

----------------------------------------------------------------------------
Init ==
    /\ pc = [p \in Procs |-> "idle"]
    /\ op = [p \in Procs |-> Undefined]
    /\ inputs = [p \in Procs |-> NoInputs]
    /\ state = [p \in Procs |-> EmptyState]
    /\ persisted = EmptyState
    /\ child = NoChild
    /\ buckets = EmptyMap
    /\ records = EmptyMap
    /\ files = EmptyMap
    /\ calls = [p \in Procs |-> << >>]
    /\ outputs = [p \in Procs |-> NoOutputs]
    /\ error = [p \in Procs |-> Undefined]
    /\ idCount = 0
    /\ failures = 0
    /\ before = [p \in Procs |-> NoSnapshot]

----------------------------------------------------------------------------
(* default(inputs) *)

\* a new invocation loads the state record and receives the inputs as passed
DefaultStart(p, raw) ==
    /\ pc[p] = "idle"
    /\ NeedsResourceId(persisted, raw.domain) => idCount < MaxResourceIds
    /\ state' = [state EXCEPT ![p] = persisted]
    /\ inputs' = [inputs EXCEPT ![p] =
                    [domain |-> raw.domain, region |-> raw.region,
                     env |-> raw.env, code |-> raw.code,
                     bucketName |-> Undefined]]
    /\ op' = [op EXCEPT ![p] = "default"]
    /\ Goto(p, "normalize")
    /\ before' = [before EXCEPT ![p] = Snapshot]
    /\ UNCHANGED <<persisted, child, buckets, records, files, calls, outputs,
                   error, idCount, failures>>

\* the normalisation at the top of default rewrites the inputs in place
NormalizeInputs(p) ==
    /\ pc[p] = "normalize"
    /\ inputs' = [inputs EXCEPT ![p] = Normalize(inputs[p], state[p], idCount + 1)]
    /\ idCount' = IF NeedsResourceId(state[p], inputs[p].domain)
                  THEN idCount + 1 ELSE idCount
    /\ Goto(p, "websiteBucket")
    /\ UNCHANGED <<before, op, state, persisted, child, buckets, records, files, calls,
                   outputs, error, failures>>

\* faulty variant: the primary bucket is provisioned under the requested domain
WebsiteBucketByDomain(p) ==
    /\ pc[p] = "websiteBucket"
    /\ buckets' = BucketDeploy(buckets, child.websiteBucket, inputs[p].domain)
    /\ child' = [child EXCEPT !.websiteBucket = inputs[p].domain]
    /\ Log(p, Call("websiteBucket", inputs[p].domain, inputs[p].region, "-"))
    /\ Goto(p, "configureBucketForHosting")
    /\ UNCHANGED <<before, op, inputs, state, persisted, records, files, outputs,
                   error, idCount, failures>>

\* await websiteBucket({ name, accelerated, region })
WebsiteBucket(p) ==
    /\ pc[p] = "websiteBucket"
    /\ buckets' = BucketDeploy(buckets, child.websiteBucket, inputs[p].bucketName)
    /\ child' = [child EXCEPT !.websiteBucket = inputs[p].bucketName]
    /\ Log(p, Call("websiteBucket", inputs[p].bucketName, inputs[p].region, "-"))
    /\ Goto(p, "configureBucketForHosting")
    /\ UNCHANGED <<before, op, inputs, state, persisted, records, files, outputs,
                   error, idCount, failures>>

\* await configureBucketForHosting(s3, inputs.bucketName)
ConfigureBucketForHosting(p) ==
    /\ pc[p] = "configureBucketForHosting"
    /\ inputs[p].bucketName \in DOMAIN buckets
    /\ buckets' = [buckets EXCEPT ![inputs[p].bucketName].website = "hosting",
                                  ![inputs[p].bucketName].target = Undefined]
    /\ Log(p, Call("configureBucketForHosting", inputs[p].bucketName, "-", "-"))
    /\ Goto(p, AfterHosting(state[p], inputs[p]))
    /\ UNCHANGED <<before, op, inputs, state, persisted, child, records, files,
                   outputs, error, idCount, failures>>

\* await redirectBucket({ name: `www.${inputs.domain}`, accelerated, region })
RedirectBucket(p) ==
    /\ pc[p] = "redirectBucket"
    /\ buckets' = BucketDeploy(buckets, child.redirectBucket, Www(inputs[p].domain))
    /\ child' = [child EXCEPT !.redirectBucket = Www(inputs[p].domain)]
    /\ Log(p, Call("redirectBucket", Www(inputs[p].domain), inputs[p].region, "-"))
    /\ Goto(p, "configureBucketForRedirect")
    /\ UNCHANGED <<before, op, inputs, state, persisted, records, files, outputs,
                   error, idCount, failures>>

\* await configureBucketForRedirect(s3, `www.${inputs.domain}`, inputs.domain)
ConfigureBucketForRedirect(p) ==
    /\ pc[p] = "configureBucketForRedirect"
    /\ Www(inputs[p].domain) \in DOMAIN buckets
    /\ buckets' = [buckets EXCEPT ![Www(inputs[p].domain)].website = "redirect",
                                  ![Www(inputs[p].domain)].target = inputs[p].domain]
    /\ Log(p, Call("configureBucketForRedirect", Www(inputs[p].domain),
                   inputs[p].domain, "-"))
    /\ Goto(p, "bindDomain")
    /\ UNCHANGED <<before, op, inputs, state, persisted, child, records, files,
                   outputs, error, idCount, failures>>

\* await configureDomainForBucket(route53, inputs.domain, inputs.region)
BindDomain(p) ==
    /\ pc[p] = "bindDomain"
    /\ records' = ConfigureDomain(records, inputs[p].domain, inputs[p].region, "UPSERT")
    /\ Log(p, Call("configureDomainForBucket", inputs[p].domain,
                   inputs[p].region, "UPSERT"))
    /\ Goto(p, "bindWww")
    /\ UNCHANGED <<before, op, inputs, state, persisted, child, buckets, files,
                   outputs, error, idCount, failures>>

\* faulty variant: the second bind repeats the bare domain
BindWwwBare(p) ==
    /\ pc[p] = "bindWww"
    /\ records' = ConfigureDomain(records, inputs[p].domain, inputs[p].region, "UPSERT")
    /\ Log(p, Call("configureDomainForBucket", inputs[p].domain,
                   inputs[p].region, "UPSERT"))
    /\ Goto(p, AfterDomain(state[p], inputs[p]))
    /\ UNCHANGED <<before, op, inputs, state, persisted, child, buckets, files,
                   outputs, error, idCount, failures>>

\* await configureDomainForBucket(route53, `www.${inputs.domain}`, inputs.region)
BindWww(p) ==
    /\ pc[p] = "bindWww"
    /\ records' = ConfigureDomain(records, Www(inputs[p].domain),
                                  inputs[p].region, "UPSERT")
    /\ Log(p, Call("configureDomainForBucket", Www(inputs[p].domain),
                   inputs[p].region, "UPSERT"))
    /\ Goto(p, AfterDomain(state[p], inputs[p]))
    /\ UNCHANGED <<before, op, inputs, state, persisted, child, buckets, files,
                   outputs, error, idCount, failures>>

\* faulty variant: the drift unbind passes the region of the new inputs
UnbindDomainInputsRegion(p) ==
    /\ pc[p] = "unbindDomain"
    /\ records' = ConfigureDomain(records, state[p].domain, inputs[p].region, "DELETE")
    /\ Log(p, Call("configureDomainForBucket", state[p].domain,
                   inputs[p].region, "DELETE"))
    /\ Goto(p, "unbindWww")
    /\ UNCHANGED <<before, op, inputs, state, persisted, child, buckets, files,
                   outputs, error, idCount, failures>>

\* await configureDomainForBucket(route53, this.state.domain, this.state.region, 'DELETE')
UnbindDomain(p) ==
    /\ pc[p] = "unbindDomain"
    /\ records' = ConfigureDomain(records, state[p].domain, state[p].region, "DELETE")
    /\ Log(p, Call("configureDomainForBucket", state[p].domain,
                   state[p].region, "DELETE"))
    /\ Goto(p, "unbindWww")
    /\ UNCHANGED <<before, op, inputs, state, persisted, child, buckets, files,
                   outputs, error, idCount, failures>>

\* await configureDomainForBucket(route53, `www.${this.state.domain}`, this.state.region, 'DELETE')
UnbindWww(p) ==
    /\ pc[p] = "unbindWww"
    /\ records' = ConfigureDomain(records, Www(state[p].domain),
                                  state[p].region, "DELETE")
    /\ Log(p, Call("configureDomainForBucket", Www(state[p].domain),
                   state[p].region, "DELETE"))
    /\ Goto(p, AfterDrift(inputs[p]))
    /\ UNCHANGED <<before, op, inputs, state, persisted, child, buckets, files,
                   outputs, error, idCount, failures>>

\* await utils.writeFile(envFilePath, script)
WriteFile(p) ==
    /\ pc[p] = "writeFile"
    /\ files' = Put(files, PathJoin(inputs[p].code.root, "env.js"),
                    EnvScript(inputs[p].env))
    /\ Log(p, Call("writeFile", PathJoin(inputs[p].code.root, "env.js"), "-", "-"))
    /\ Goto(p, AfterEnv(inputs[p]))
    /\ UNCHANGED <<before, op, inputs, state, persisted, child, buckets, records,
                   outputs, error, idCount, failures>>

\* await exec(inputs.code.hook, { cwd: inputs.code.root }) succeeds
Exec(p) ==
    /\ pc[p] = "exec"
    /\ Log(p, Call("exec", inputs[p].code.hook, inputs[p].code.root, "-"))
    /\ Goto(p, "upload")
    /\ UNCHANGED <<before, op, inputs, state, persisted, child, buckets, records,
                   files, outputs, error, idCount, failures>>

\* faulty variant: the catch block reports the error and does not rethrow
ExecFailSwallowed(p) ==
    /\ pc[p] = "exec"
    /\ failures < MaxFailures
    /\ failures' = failures + 1
    /\ error' = [error EXCEPT ![p] =
                    "Failed building website via \"" \o inputs[p].code.hook \o "\""]
    /\ Goto(p, "upload")
    /\ UNCHANGED <<before, op, inputs, state, persisted, child, buckets, records,
                   files, calls, outputs, idCount>>

\* exec rejects: the catch block rethrows a descriptive error
ExecFail(p) ==
    /\ pc[p] = "exec"
    /\ failures < MaxFailures
    /\ failures' = failures + 1
    /\ error' = [error EXCEPT ![p] =
                    "Failed building website via \"" \o inputs[p].code.hook \o "\""]
    /\ Goto(p, "failed")
    /\ UNCHANGED <<before, op, inputs, state, persisted, child, buckets, records,
                   files, calls, outputs, idCount>>

\* the directory default uploads
DirToUpload(inp) == IF Truthy(inp.code.src) THEN inp.code.src ELSE inp.code.root

\* faulty variant: the url is built for the default region, not the resolved one
DeployedStateDefaultUrl(inp) ==
    [bucketName |-> inp.bucketName,
     domain     |-> inp.domain,
     region     |-> inp.region,
     url        |-> WebsiteUrl(inp.bucketName, DefaultRegion)]

\* this.state after default's four assignments
DeployedState(inp) ==
    [bucketName |-> inp.bucketName,
     domain     |-> inp.domain,
     region     |-> inp.region,
     url        |-> WebsiteUrl(inp.bucketName, inp.region)]

\* faulty variant: the state is saved as soon as it is assigned, before the upload
\* has been awaited to its end
UploadSavingEarly(p) ==
    /\ pc[p] = "upload"
    /\ Truthy(child.websiteBucket)
    /\ child.websiteBucket \in DOMAIN buckets
    /\ state' = [state EXCEPT ![p] = DeployedState(inputs[p])]
    /\ persisted' = DeployedState(inputs[p])
    /\ Log(p, Call("upload", child.websiteBucket, DirToUpload(inputs[p]), "-"))
    /\ Goto(p, "save")
    /\ UNCHANGED <<before, op, inputs, child, buckets, records, files, outputs,
                   error, idCount, failures>>

\* await websiteBucket.upload({ dir }), then the assignments to this.state
Upload(p) ==
    /\ pc[p] = "upload"
    /\ Truthy(child.websiteBucket)
    /\ child.websiteBucket \in DOMAIN buckets
    /\ state' = [state EXCEPT ![p] = DeployedState(inputs[p])]
    /\ Log(p, Call("upload", child.websiteBucket, DirToUpload(inputs[p]), "-"))
    /\ Goto(p, "save")
    /\ UNCHANGED <<before, op, inputs, persisted, child, buckets, records, files,
                   outputs, error, idCount, failures>>

\* the outputs default returns
Outputs(st, inp) ==
    [url    |-> st.url,
     env    |-> IF inp.env.present THEN inp.env ELSE EmptyEnv,
     domain |-> IF Truthy(inp.domain) THEN "http://" \o inp.domain ELSE Undefined]

\* faulty variant: the save merges into the stored record, keeping the bucket
\* name and the region the store already holds
SaveMerging(p) ==
    /\ pc[p] = "save"
    /\ persisted' = IF persisted = EmptyState THEN state[p]
                    ELSE [persisted EXCEPT !.domain = state[p].domain,
                                           !.url = state[p].url]
    /\ outputs' = [outputs EXCEPT ![p] = Outputs(state[p], inputs[p])]
    /\ Log(p, Call("save", "-", "-", "-"))
    /\ Goto(p, "done")
    /\ UNCHANGED <<before, op, inputs, state, child, buckets, records, files, error,
                   idCount, failures>>

\* await this.save(), then return outputs
Save(p) ==
    /\ pc[p] = "save"
    /\ persisted' = state[p]
    /\ outputs' = [outputs EXCEPT ![p] = Outputs(state[p], inputs[p])]
    /\ Log(p, Call("save", "-", "-", "-"))
    /\ Goto(p, "done")
    /\ UNCHANGED <<before, op, inputs, state, child, buckets, records, files, error,
                   idCount, failures>>

----------------------------------------------------------------------------
(* remove() *)

\* a new invocation loads the state record and starts remove
RemoveStart(p) ==
    /\ pc[p] = "idle"
    /\ state' = [state EXCEPT ![p] = persisted]
    /\ op' = [op EXCEPT ![p] = "remove"]
    /\ Goto(p, "removeWebsiteBucket")
    /\ UNCHANGED <<before, inputs, persisted, child, buckets, records, files, calls,
                   outputs, error, idCount, failures>>

\* faulty variant: the domain cleanup runs whether or not a domain is held
RemoveWebsiteBucketThenDomain(p) ==
    /\ pc[p] = "removeWebsiteBucket"
    /\ buckets' = BucketRemove(buckets, child.websiteBucket)
    /\ child' = [child EXCEPT !.websiteBucket = Undefined]
    /\ Log(p, Call("websiteBucket.remove", child.websiteBucket, "-", "-"))
    /\ Goto(p, "removeUnbindDomain")
    /\ UNCHANGED <<before, op, inputs, state, persisted, records, files, outputs,
                   error, idCount, failures>>

\* await websiteBucket.remove()
RemoveWebsiteBucket(p) ==
    /\ pc[p] = "removeWebsiteBucket"
    /\ buckets' = BucketRemove(buckets, child.websiteBucket)
    /\ child' = [child EXCEPT !.websiteBucket = Undefined]
    /\ Log(p, Call("websiteBucket.remove", child.websiteBucket, "-", "-"))
    /\ Goto(p, IF Truthy(state[p].domain) THEN "removeUnbindDomain" ELSE "removeSave")
    /\ UNCHANGED <<before, op, inputs, state, persisted, records, files, outputs,
                   error, idCount, failures>>

\* await configureDomainForBucket(route53, this.state.domain, this.state.region, 'DELETE')
RemoveUnbindDomain(p) ==
    /\ pc[p] = "removeUnbindDomain"
    /\ records' = ConfigureDomain(records, state[p].domain, state[p].region, "DELETE")
    /\ Log(p, Call("configureDomainForBucket", state[p].domain,
                   state[p].region, "DELETE"))
    /\ Goto(p, "removeUnbindWww")
    /\ UNCHANGED <<before, op, inputs, state, persisted, child, buckets, files,
                   outputs, error, idCount, failures>>

\* faulty variant: the redirect bucket is removed before the www. alias is unbound
RemoveUnbindWwwLast(p) ==
    /\ pc[p] = "removeUnbindWww"
    /\ IF \A i \in 1..Len(calls[p]) : calls[p][i].fn # "redirectBucket.remove"
       THEN /\ buckets' = BucketRemove(buckets, child.redirectBucket)
            /\ child' = [child EXCEPT !.redirectBucket = Undefined]
            /\ Log(p, Call("redirectBucket.remove", child.redirectBucket, "-", "-"))
            /\ Goto(p, "removeUnbindWww")
            /\ UNCHANGED records
       ELSE /\ records' = ConfigureDomain(records, Www(state[p].domain),
                                          state[p].region, "DELETE")
            /\ Log(p, Call("configureDomainForBucket", Www(state[p].domain),
                           state[p].region, "DELETE"))
            /\ Goto(p, "removeSave")
            /\ UNCHANGED <<buckets, child>>
    /\ UNCHANGED <<before, op, inputs, state, persisted, files, outputs, error,
                   idCount, failures>>

\* await configureDomainForBucket(route53, `www.${this.state.domain}`, this.state.region, 'DELETE')
RemoveUnbindWww(p) ==
    /\ pc[p] = "removeUnbindWww"
    /\ records' = ConfigureDomain(records, Www(state[p].domain),
                                  state[p].region, "DELETE")
    /\ Log(p, Call("configureDomainForBucket", Www(state[p].domain),
                   state[p].region, "DELETE"))
    /\ Goto(p, "removeRedirectBucket")
    /\ UNCHANGED <<before, op, inputs, state, persisted, child, buckets, files,
                   outputs, error, idCount, failures>>

\* await redirectBucket.remove()
RemoveRedirectBucket(p) ==
    /\ pc[p] = "removeRedirectBucket"
    /\ buckets' = BucketRemove(buckets, child.redirectBucket)
    /\ child' = [child EXCEPT !.redirectBucket = Undefined]
    /\ Log(p, Call("redirectBucket.remove", child.redirectBucket, "-", "-"))
    /\ Goto(p, "removeSave")
    /\ UNCHANGED <<before, op, inputs, state, persisted, records, files, outputs,
                   error, idCount, failures>>

\* this.state = {}; await this.save(); return {}
RemoveSave(p) ==
    /\ pc[p] = "removeSave"
    /\ state' = [state EXCEPT ![p] = EmptyState]
    /\ persisted' = EmptyState
    /\ Log(p, Call("save", "-", "-", "-"))
    /\ Goto(p, "done")
    /\ UNCHANGED <<before, op, inputs, child, buckets, records, files, outputs,
                   error, idCount, failures>>

----------------------------------------------------------------------------
(* Failure of an awaited collaborator call *)

\* the steps whose awaited call may reject and propagate out of the method
Awaited ==
    {"websiteBucket", "configureBucketForHosting", "redirectBucket",
     "configureBucketForRedirect", "bindDomain", "bindWww", "unbindDomain",
     "unbindWww", "writeFile", "upload", "save",
     "removeWebsiteBucket", "removeUnbindDomain", "removeUnbindWww",
     "removeRedirectBucket", "removeSave"}

\* faulty variant: a remove that throws still clears the stored state
FailClearingState(p) ==
    /\ pc[p] \in Awaited
    /\ failures < MaxFailures
    /\ failures' = failures + 1
    /\ error' = [error EXCEPT ![p] = pc[p]]
    /\ persisted' = IF op[p] = "remove" THEN EmptyState ELSE persisted
    /\ Goto(p, "failed")
    /\ UNCHANGED <<before, op, inputs, state, child, buckets, records,
                   files, calls, outputs, idCount>>

\* the awaited call of the current step rejects: the method throws
Fail(p) ==
    /\ pc[p] \in Awaited
    /\ failures < MaxFailures
    /\ failures' = failures + 1
    /\ error' = [error EXCEPT ![p] = pc[p]]
    /\ Goto(p, "failed")
    /\ UNCHANGED <<before, op, inputs, state, persisted, child, buckets, records,
                   files, calls, outputs, idCount>>

\* the method has returned or thrown and the invocation's process ends:
\* nothing of it outlives the state store and the provider
Exit(p) ==
    /\ pc[p] \in Finished
    /\ Goto(p, "idle")
    /\ op' = [op EXCEPT ![p] = Undefined]
    /\ inputs' = [inputs EXCEPT ![p] = NoInputs]
    /\ state' = [state EXCEPT ![p] = EmptyState]
    /\ calls' = [calls EXCEPT ![p] = << >>]
    /\ outputs' = [outputs EXCEPT ![p] = NoOutputs]
    /\ error' = [error EXCEPT ![p] = Undefined]
    /\ before' = [before EXCEPT ![p] = NoSnapshot]
    /\ UNCHANGED <<persisted, child, buckets, records, files, idCount, failures>>

----------------------------------------------------------------------------
(* Specifications *)

\* one step of a running deploy, every awaited call succeeding
DeployStep(p) ==
    \/ NormalizeInputs(p)
    \/ WebsiteBucket(p)
    \/ ConfigureBucketForHosting(p)
    \/ RedirectBucket(p)
    \/ ConfigureBucketForRedirect(p)
    \/ BindDomain(p)
    \/ BindWww(p)
    \/ UnbindDomain(p)
    \/ UnbindWww(p)
    \/ WriteFile(p)
    \/ Exec(p)
    \/ Upload(p)
    \/ Save(p)

\* one step of a running remove, every awaited call succeeding
RemoveStep(p) ==
    \/ RemoveWebsiteBucket(p)
    \/ RemoveUnbindDomain(p)
    \/ RemoveUnbindWww(p)
    \/ RemoveRedirectBucket(p)
    \/ RemoveSave(p)

\* one step of a running invocation, every awaited call succeeding
Step(p) == DeployStep(p) \/ RemoveStep(p)

\* the single deployment process the component assumes
Main == 1

\* operations run one at a time and every awaited call succeeds
Next ==
    \/ \E raw \in RawInputs : DefaultStart(Main, raw)
    \/ RemoveStart(Main)
    \/ Step(Main)
    \/ Exit(Main)

Spec == Init /\ [][Next]_vars

\* operations run one at a time; any awaited call may fail
NextFail ==
    \/ \E raw \in FailInputs : DefaultStart(Main, raw)
    \/ RemoveStart(Main)
    \/ Step(Main)
    \/ ExecFail(Main)
    \/ Fail(Main)
    \/ Exit(Main)

SpecFail == Init /\ [][NextFail]_vars

\* the inputs of the deploys that run side by side: a bare site on one
\* domain in the default region, and a built site with an env bundle on
\* another domain in another region
ConcInputs ==
    { [domain |-> "a.com", region |-> Undefined, env |-> NoEnv, code |-> PlainCode],
      [domain |-> "b.com", region |-> "eu-west-1", env |-> ApiEnv, code |-> BuiltCode] }

\* two deployment processes work on the same state record with no lock:
\* each runs one deploy, their steps interleave at every awaited call, and
\* every call succeeds
NextConc ==
    \E p \in Procs :
        \/ \E raw \in ConcInputs : DefaultStart(p, raw)
        \/ DeployStep(p)

SpecConc == Init /\ [][NextConc]_vars

----------------------------------------------------------------------------
(* Vocabulary of the properties *)

\* the DNS calls of the current run, in order
DnsCalls(p) == SelectSeq(calls[p], LAMBDA c : c.fn = "configureDomainForBucket")

\* the unbind (DELETE) calls of the current run, in order
Deletes(p) == SelectSeq(calls[p], LAMBDA c : c.action = "DELETE")

\* the bind (upsert) calls of the current run, in order
Upserts(p) == SelectSeq(calls[p], LAMBDA c : c.action = "UPSERT")

\* the calls of the current run to collaborator fn, in order
CallsTo(p, fn) == SelectSeq(calls[p], LAMBDA c : c.fn = fn)

Bind(d, r) == Call("configureDomainForBucket", d, r, "UPSERT")

Unbind(d, r) == Call("configureDomainForBucket", d, r, "DELETE")

\* no operation is in progress
AtRest == pc[Main] \in {"idle", "done"}

\* the buckets configured as redirect targets, and the others
RedirectBuckets == {n \in DOMAIN buckets : buckets[n].website = "redirect"}

PrimaryBuckets == DOMAIN buckets \ RedirectBuckets

----------------------------------------------------------------------------
(* C1 *)

\* C1 (as claimed): whenever no operation is in progress, the one primary
\* bucket is the one named persisted.bucketName (when state is non-empty),
\* and the redirect buckets are exactly {www.<persisted.domain>} when a
\* domain is persisted and none otherwise.  The code leaves the redirect
\* bucket of a dropped domain behind, so TLC refutes this.
C1_ResourcesMatchState ==
    AtRest =>
        /\ persisted # EmptyState => PrimaryBuckets = {persisted.bucketName}
        /\ RedirectBuckets = IF Truthy(persisted.domain)
                             THEN {Www(persisted.domain)} ELSE {}

----------------------------------------------------------------------------
(* C2 *)

\* C2 (as claimed): when a remove has completed, no bucket and no alias
\* record is left and the persisted state is empty.  After a deploy that
\* dropped the domain, remove skips the redirect bucket, so TLC refutes this.
C2_RemoveTearsDownAll ==
    (pc[Main] = "done" /\ op[Main] = "remove") =>
        /\ buckets = EmptyMap
        /\ records = EmptyMap
        /\ persisted = EmptyState

----------------------------------------------------------------------------
(* C3 *)

\* the deploy of Main has run every DNS step and has not yet touched
\* this.state or the state store
PastDrift == op[Main] = "default" /\ pc[Main] \in {"writeFile", "exec", "upload"}

\* C3: once a deploy is past the drift check, its DELETE calls are exactly
\* the unbind of the persisted domain and of its www. alias, both with the
\* persisted region, when a domain is persisted that differs from the
\* requested one (or none is requested); otherwise it has issued no DELETE.
C3_DriftUnbindsOldDomain ==
    PastDrift =>
        Deletes(Main) =
            IF persisted.domain # Undefined /\ persisted.domain # inputs[Main].domain
            THEN << Unbind(persisted.domain, persisted.region),
                    Unbind(Www(persisted.domain), persisted.region) >>
            ELSE << >>

\* C3 witness: a deploy without a domain, in another region than the
\* persisted one, has unbound the persisted domain
C3_Witness ==
    /\ PastDrift
    /\ persisted.domain = "a.com"
    /\ inputs[Main].domain = Undefined
    /\ persisted.region # inputs[Main].region
    /\ Len(Deletes(Main)) = 2

----------------------------------------------------------------------------
(* C4 *)

\* a deploy of Main that moves the domain from a.com to b.com is past its
\* DNS steps
MovedDomain ==
    /\ PastDrift
    /\ persisted.domain = "a.com"
    /\ inputs[Main].domain = "b.com"

\* C4 (as claimed): when a deploy moves the domain from a.com to b.com, both
\* unbinds of the old domain come before the first bind of the new one.
\* The code binds first, so TLC refutes this.
C4_UnbindBeforeBind ==
    MovedDomain =>
        \A i, j \in 1..Len(calls[Main]) :
            (calls[Main][i].action = "DELETE" /\ calls[Main][j].action = "UPSERT")
                => i < j

\* C4 (amended): when a deploy moves the domain from a.com to b.com, its
\* DNS calls are, in this order, the bind of b.com, the bind of www.b.com
\* (requested region), the unbind of a.com and the unbind of www.a.com
\* (persisted region): both unbinds come after both binds.
C4_BindBeforeUnbind ==
    MovedDomain =>
        DnsCalls(Main) =
            << Bind("b.com", inputs[Main].region),
               Bind("www.b.com", inputs[Main].region),
               Unbind("a.com", persisted.region),
               Unbind("www.a.com", persisted.region) >>

\* C4 witness: such a deploy has issued its four DNS calls
C4_Witness == MovedDomain /\ Len(DnsCalls(Main)) = 4

----------------------------------------------------------------------------
(* C5 *)

\* C5: once a bucket name is persisted, a step keeps it, unless the step
\* is the save of a remove, which empties the state: no deploy, whatever
\* its domain and region, changes the persisted bucket name.
C5_BucketNameStable ==
    [][ Truthy(persisted.bucketName) =>
            \/ persisted'.bucketName = persisted.bucketName
            \/ op[Main] = "remove" /\ persisted' = EmptyState ]_vars

\* C5 witness: a deploy that requested another domain and another region
\* than the first one has completed, and the bucket still has the name the
\* first deploy gave it
C5_Witness ==
    /\ pc[Main] = "done"
    /\ op[Main] = "default"
    /\ persisted.domain = "b.com"
    /\ persisted.region = "eu-west-1"
    /\ persisted.bucketName = "a.com"

----------------------------------------------------------------------------
(* C6 *)

\* the deploy of Main has provisioned its primary bucket and has not yet
\* written the state store
Provisioned ==
    /\ op[Main] = "default"
    /\ pc[Main] \notin {"idle", "normalize", "websiteBucket", "done", "failed"}

\* C6: the bucket name a deploy resolves is the persisted one when there is
\* one; else the requested domain when there is one; else the identifier
\* generated last, which names no bucket generated before.  The first call
\* of the deploy provisions the primary bucket under that name.
C6_BucketNameResolution ==
    Provisioned =>
        /\ inputs[Main].bucketName =
              IF persisted.bucketName # Undefined THEN persisted.bucketName
              ELSE IF inputs[Main].domain # Undefined THEN inputs[Main].domain
              ELSE ResourceId(idCount)
        /\ (persisted.bucketName = Undefined /\ inputs[Main].domain = Undefined)
              => /\ idCount >= 1
                 /\ \A n \in 1..(idCount - 1) : ResourceId(n) # inputs[Main].bucketName
        /\ calls[Main][1] =
              Call("websiteBucket", inputs[Main].bucketName, inputs[Main].region, "-")
        /\ Len(CallsTo(Main, "websiteBucket")) = 1

\* C6 witness: a deploy requesting domain b.com provisions the bucket under
\* the persisted name a.com
C6_Witness ==
    /\ Provisioned
    /\ persisted.bucketName = "a.com"
    /\ inputs[Main].domain = "b.com"
    /\ "a.com" \in DOMAIN buckets

----------------------------------------------------------------------------
(* C7 *)

\* C7: during a deploy the state store changes only in the step that
\* completes the deploy; a step that fails raises an error and leaves the
\* store as it is; and after a failure the invocation only exits, making
\* no further call.  So a deploy that fails at any step leaves the
\* persisted state as it was before the run.
C7_NoPartialPersistence ==
    [][ op[Main] = "default" =>
            /\ persisted' # persisted => pc'[Main] = "done"
            /\ (pc[Main] # "failed" /\ pc'[Main] = "failed") =>
                    /\ error'[Main] # Undefined
                    /\ persisted' = persisted
                    /\ calls' = calls
            /\ pc[Main] = "failed" =>
                    /\ pc'[Main] = "idle"
                    /\ persisted' = persisted ]_vars

\* C7 witness: a deploy that would have changed the persisted domain and
\* region has failed at the upload, after its DNS calls, and the store
\* still holds the earlier record
C7_Witness ==
    /\ pc[Main] = "failed"
    /\ op[Main] = "default"
    /\ error[Main] = "upload"
    /\ Len(DnsCalls(Main)) = 4
    /\ persisted.domain = "a.com"
    /\ inputs[Main].domain = "b.com"
    /\ persisted.region # inputs[Main].region

----------------------------------------------------------------------------
(* C8 *)

\* the error default throws when the build hook fails
HookError(hook) == "Failed building website via \"" \o hook \o "\""

\* C8: when the build hook of a deploy has failed, the deploy has aborted
\* with the hook error, it was given a hook, it has made no upload call
\* and no save, and the state store holds what the invocation loaded.
C8_HookFailureAborts ==
    (error[Main] # Undefined /\ error[Main] \notin Awaited) =>
        /\ pc[Main] = "failed"
        /\ op[Main] = "default"
        /\ inputs[Main].code.hook # Undefined
        /\ error[Main] = HookError(inputs[Main].code.hook)
        /\ CallsTo(Main, "upload") = << >>
        /\ CallsTo(Main, "save") = << >>
        /\ persisted = state[Main]

\* C8 witness: the hook of a deploy that had written its env bundle failed,
\* while the store holds an earlier deploy's record
C8_Witness ==
    /\ pc[Main] = "failed"
    /\ error[Main] = HookError(Hook)
    /\ Len(CallsTo(Main, "writeFile")) = 1
    /\ persisted # EmptyState
    /\ persisted.domain # inputs[Main].domain

----------------------------------------------------------------------------
(* C9 *)

\* the deploy of Main has returned
Deployed == pc[Main] = "done" /\ op[Main] = "default"

\* C9: a deploy that has returned and was given a domain d has provisioned
\* the redirect bucket www.d once, in the requested region, configured it
\* once to redirect to d, and bound d and then www.d, once each, with the
\* requested region; the bucket www.d exists and redirects to d.  A deploy
\* given no domain has provisioned no redirect bucket and bound nothing.
C9_DomainProvisioning ==
    Deployed =>
        LET d == inputs[Main].domain
            r == inputs[Main].region
        IN  IF d # Undefined
            THEN /\ CallsTo(Main, "redirectBucket") =
                        << Call("redirectBucket", Www(d), r, "-") >>
                 /\ CallsTo(Main, "configureBucketForRedirect") =
                        << Call("configureBucketForRedirect", Www(d), d, "-") >>
                 /\ Upserts(Main) = << Bind(d, r), Bind(Www(d), r) >>
                 /\ Www(d) \in DOMAIN buckets
                 /\ buckets[Www(d)] = [website |-> "redirect", target |-> d]
            ELSE /\ CallsTo(Main, "redirectBucket") = << >>
                 /\ CallsTo(Main, "configureBucketForRedirect") = << >>
                 /\ Upserts(Main) = << >>

\* C9 witness: a deploy with domain a.com in eu-west-1 has returned
C9_Witness ==
    /\ Deployed
    /\ inputs[Main].domain = "a.com"
    /\ inputs[Main].region = "eu-west-1"
    /\ Len(Upserts(Main)) = 2

----------------------------------------------------------------------------
(* C10 *)

\* C10: a remove of a state with domain d that is about to save has made,
\* in this order, the removal of the primary bucket, the unbind of d, the
\* unbind of www.d (both with the persisted region) and the removal of the
\* redirect bucket, and the store still holds the record; when the remove
\* has returned, its last call was the save and the store is empty.
C10_RemoveOrder ==
    /\ (pc[Main] = "removeSave" /\ state[Main].domain # Undefined) =>
            /\ calls[Main] =
                  << Call("websiteBucket.remove", state[Main].bucketName, "-", "-"),
                     Unbind(state[Main].domain, state[Main].region),
                     Unbind(Www(state[Main].domain), state[Main].region),
                     Call("redirectBucket.remove", Www(state[Main].domain), "-", "-") >>
            /\ persisted = state[Main]
            /\ state[Main].bucketName \notin DOMAIN buckets
            /\ Www(state[Main].domain) \notin DOMAIN buckets
    /\ (pc[Main] = "done" /\ op[Main] = "remove") =>
            /\ calls[Main][Len(calls[Main])] = Call("save", "-", "-", "-")
            /\ Len(CallsTo(Main, "save")) = 1
            /\ persisted = EmptyState

\* C10 witness: a remove of a state with domain a.com has returned after
\* its five calls
C10_Witness ==
    /\ pc[Main] = "done"
    /\ op[Main] = "remove"
    /\ Len(calls[Main]) = 5
    /\ calls[Main][2] = Unbind("a.com", "eu-west-1")

----------------------------------------------------------------------------
(* C11 *)

\* a remove of Main runs on a state that holds no domain
RemovingBare ==
    /\ op[Main] = "remove"
    /\ pc[Main] \in {"removeWebsiteBucket", "removeSave"}
    /\ state[Main].domain = Undefined

\* C11: every step of a remove of a state without a domain leaves the DNS
\* records alone and leaves every bucket but the primary one as it is; the
\* step after the removal of the primary bucket is the save; the run makes
\* no unbind call and no redirect-bucket removal; and its save empties the
\* store with the primary bucket gone.
C11_RemoveWithoutDomain ==
    [][ RemovingBare =>
            /\ records' = records
            /\ \A n \in DOMAIN buckets \ {child.websiteBucket} :
                    n \in DOMAIN buckets' /\ buckets'[n] = buckets[n]
            /\ child'.redirectBucket = child.redirectBucket
            /\ pc[Main] = "removeWebsiteBucket" =>
                    /\ pc'[Main] = "removeSave"
                    /\ state[Main].bucketName \notin DOMAIN buckets'
            /\ Deletes(Main)' = << >>
            /\ CallsTo(Main, "redirectBucket.remove")' = << >>
            /\ pc[Main] = "removeSave" =>
                    /\ pc'[Main] = "done"
                    /\ persisted' = EmptyState
                    /\ CallsTo(Main, "websiteBucket.remove")' =
                          << Call("websiteBucket.remove", state[Main].bucketName,
                                  "-", "-") >> ]_vars

\* C11 witness: a remove of a state without a domain has returned after the
\* removal of the primary bucket and the save, while a redirect bucket of an
\* earlier deploy is still there
C11_Witness ==
    /\ pc[Main] = "done"
    /\ op[Main] = "remove"
    /\ Len(calls[Main]) = 2
    /\ "a.com" \notin DOMAIN buckets
    /\ "www.a.com" \in RedirectBuckets

----------------------------------------------------------------------------
(* C12 *)

\* C12: when a deploy has returned, the stored state holds the bucket name
\* the deploy resolved and provisioned, the requested domain (undefined when
\* none was requested), the resolved region, and the website endpoint built
\* from that same bucket name and region; the url of the returned outputs is
\* the stored url.
C12_DeployedStateFields ==
    Deployed =>
        /\ persisted.bucketName = inputs[Main].bucketName
        /\ persisted.bucketName = calls[Main][1].name
        /\ Truthy(persisted.bucketName)
        /\ persisted.domain = inputs[Main].domain
        /\ persisted.region = inputs[Main].region
        /\ persisted.region = calls[Main][1].arg
        /\ persisted.region \in Regions
        /\ persisted.url = "http://" \o persisted.bucketName \o ".s3-website-"
                              \o persisted.region \o ".amazonaws.com"
        /\ outputs[Main].url = persisted.url
        /\ DOMAIN persisted = {"bucketName", "domain", "region", "url"}

\* a returned deploy without a domain, in a region other than the default,
\* of a website whose bucket is named after an earlier domain
C12_Witness ==
    /\ Deployed
    /\ persisted.domain = Undefined
    /\ persisted.bucketName = "a.com"
    /\ outputs[Main].url = "http://a.com.s3-website-eu-west-1.amazonaws.com"

----------------------------------------------------------------------------
(* C13 *)

\* C13: the normalisation of a deploy's inputs resolves an omitted region to
\* 'us-east-1', whatever region the loaded state holds, and keeps a given
\* region; with an empty loaded state and no domain it resolves the bucket
\* name to a freshly generated, non-empty identifier.
C13_InputDefaults ==
    [][ pc[Main] = "normalize" =>
            /\ inputs[Main].region = Undefined =>
                    inputs'[Main].region = "us-east-1"
            /\ inputs[Main].region # Undefined =>
                    inputs'[Main].region = inputs[Main].region
            /\ (state[Main] = EmptyState /\ inputs[Main].domain = Undefined) =>
                    /\ idCount' = idCount + 1
                    /\ inputs'[Main].bucketName = "website-" \o ToString(idCount')
                    /\ Len(inputs'[Main].bucketName) > 0
                    /\ inputs'[Main].bucketName # Undefined ]_vars

\* a deploy that omitted the region is about to normalise its inputs over a
\* state stored for another region
C13_Witness ==
    /\ pc[Main] = "normalize"
    /\ inputs[Main].region = Undefined
    /\ state[Main].region = "eu-west-1"

----------------------------------------------------------------------------
(* C14 *)

\* C14 (as claimed): whenever no operation is in progress, after any
\* sequence of successful deploys and removes, the alias records present are
\* exactly those of d and www.d when the stored state has domain d, and none
\* when it has no domain -- also when the old and the new domain overlap
\* under the www. prefix.  The drift DELETE of www.<old> runs after the bind
\* of <new>, so a move from www.x to x deletes the record of www.x that the
\* same deploy has just bound for the new domain: TLC refutes this.
C14_RecordsMatchState ==
    AtRest =>
        DOMAIN records = IF Truthy(persisted.domain)
                         THEN {persisted.domain, Www(persisted.domain)}
                         ELSE {}

----------------------------------------------------------------------------
(* C15 *)

\* a deploy of Main has returned that asked for the domain and the region
\* the previous deploy had stored
Redeployed ==
    /\ Deployed
    /\ before[Main].persisted # EmptyState
    /\ before[Main].persisted.domain = inputs[Main].domain
    /\ before[Main].persisted.region = inputs[Main].region

\* C15 (as claimed): a deploy that repeats the inputs of the deploy before it
\* leaves the stored state as it found it, makes no DNS DELETE call, and
\* leaves the same buckets and the same alias records as it found.  After a
\* move between overlapping domains the first deploy ends with a record
\* missing (C14) and the repeated deploy binds it again, so TLC refutes the
\* part on the records.
C15_RedeployIdempotent ==
    Redeployed =>
        /\ persisted = before[Main].persisted
        /\ Deletes(Main) = << >>
        /\ buckets = before[Main].buckets
        /\ records = before[Main].records

----------------------------------------------------------------------------
(* C16 *)

\* the cleanup steps of remove, and the collaborator call each one makes
RemoveSteps ==
    <<"removeWebsiteBucket", "removeUnbindDomain", "removeUnbindWww",
      "removeRedirectBucket">>

RemoveCalls ==
    <<"websiteBucket.remove", "configureDomainForBucket",
      "configureDomainForBucket", "redirectBucket.remove">>

\* the remove of Main has thrown at one of its cleanup steps
RemoveFailed ==
    /\ op[Main] = "remove"
    /\ pc[Main] = "failed"
    /\ error[Main] # "removeSave"

\* C16: when a cleanup step of remove fails (the removal of the primary
\* bucket, either unbind, the removal of the redirect bucket), remove throws
\* the error of that step, only the steps before it have made their calls,
\* no save was made, and the store still holds the record the remove had
\* loaded, bucket name and domain included.
C16_RemoveFailureAborts ==
    RemoveFailed =>
        \E k \in 1..Len(RemoveSteps) :
            /\ error[Main] = RemoveSteps[k]
            /\ Len(calls[Main]) = k - 1
            /\ \A i \in 1..(k - 1) : calls[Main][i].fn = RemoveCalls[i]
            /\ persisted = state[Main]
            /\ k > 1 => /\ Truthy(persisted.bucketName)
                        /\ Truthy(persisted.domain)

\* a remove has failed at the www. unbind: the primary bucket and the record
\* of the domain are gone, the www. record, the redirect bucket and the
\* stored state are still there
C16_Witness ==
    /\ RemoveFailed
    /\ error[Main] = "removeUnbindWww"
    /\ persisted.domain = "a.com"
    /\ persisted.bucketName = "a.com"
    /\ DOMAIN records = {"www.a.com"}
    /\ DOMAIN buckets = {"www.a.com"}

----------------------------------------------------------------------------
(* C17 *)

\* the positions in Main's call log of the calls to fn
Idx(fn) == { i \in 1..Len(calls[Main]) : calls[Main][i].fn = fn }

\* the positions of the bind (upsert) calls
BindIdx ==
    { i \in Idx("configureDomainForBucket") : calls[Main][i].action = "UPSERT" }

\* every call of A was made before every call of B, and B was not called
\* without A
Precedes(A, B) ==
    /\ \A i \in A, j \in B : i < j
    /\ B # {} => A # {}

\* C17: in a deploy the completed calls are ordered: the primary bucket is
\* provisioned before it is configured for hosting; the redirect bucket is
\* provisioned before it is configured, and configured before the two
\* binds; env.js is written (when env has entries) before the build hook
\* runs (when one is given); the hook runs before the upload; the upload
\* precedes the save, which is made once and is the last call.  Every step
\* is awaited, so the calls are totally ordered and at most one is under way.
C17_StepOrder ==
    op[Main] = "default" =>
        /\ Precedes(Idx("websiteBucket"), Idx("configureBucketForHosting"))
        /\ Precedes(Idx("configureBucketForHosting"), Idx("upload"))
        /\ Precedes(Idx("redirectBucket"), Idx("configureBucketForRedirect"))
        /\ Precedes(Idx("configureBucketForRedirect"), BindIdx)
        /\ \A i \in Idx("writeFile"), j \in Idx("exec") : i < j
        /\ \A i \in Idx("writeFile") \cup Idx("exec"), j \in Idx("upload") : i < j
        /\ Idx("upload") # {} =>
                /\ Idx("writeFile") # {} <=> inputs[Main].env.entries # << >>
                /\ Idx("exec") # {} <=> inputs[Main].code.hook # Undefined
                /\ BindIdx # {} <=> inputs[Main].domain # Undefined
                /\ BindIdx # {} => Cardinality(BindIdx) = 2
        /\ \A i \in BindIdx, j \in Idx("upload") : i < j
        /\ Precedes(Idx("upload"), Idx("save"))
        /\ Cardinality(Idx("upload")) <= 1
        /\ Idx("save") \subseteq {Len(calls[Main])}
        /\ Idx("save") # {} <=> pc[Main] = "done"

\* a deploy with a domain, an env bundle and a build hook has returned,
\* having made all its steps
C17_Witness ==
    /\ Deployed
    /\ Idx("save") = {Len(calls[Main])}
    /\ Idx("exec") # {} /\ Idx("writeFile") # {} /\ BindIdx # {}
    /\ Deletes(Main) # << >>

----------------------------------------------------------------------------
(* C19 *)

\* the assignment env.js holds for one entry <<key, value>> of env
EnvAssignment(e) == "window.env." \o e[1] \o " = \"" \o e[2] \o "\";\n"

\* C19: a deploy that has returned wrote env.js, once and into code.root,
\* if and only if inputs.env has at least one entry; the file then holds
\* the opening line and, in order, one assignment per entry with the value
\* JSON-encoded; with env absent or empty it made no write.  The returned
\* outputs carry the entries of env, and an empty mapping when env was absent.
C19_EnvBundle ==
    Deployed =>
        LET env  == inputs[Main].env
            n    == Len(env.entries)
            path == inputs[Main].code.root \o "/env.js"
        IN  /\ CallsTo(Main, "writeFile") # << >> <=> n >= 1
            /\ n >= 1 =>
                /\ CallsTo(Main, "writeFile") = << Call("writeFile", path, "-", "-") >>
                /\ path \in DOMAIN files
                /\ files[path] =
                        "window.env = {};\n"
                          \o EnvAssignment(env.entries[1])
                          \o (IF n >= 2 THEN EnvAssignment(env.entries[2]) ELSE "")
                /\ n <= 2
            /\ outputs[Main].env.present
            /\ outputs[Main].env.entries = env.entries

\* a deploy with two env entries has returned; env.js holds both assignments
C19_Witness ==
    /\ Deployed
    /\ Len(inputs[Main].env.entries) = 2
    /\ "/cwd/env.js" \in DOMAIN files
    /\ files["/cwd/env.js"] =
          "window.env = {};\nwindow.env.API = \"https://x\";\nwindow.env.MODE = \"prod\";\n"
    /\ outputs[Main].env = inputs[Main].env

----------------------------------------------------------------------------
(* C18 *)

\* the record a deploy of p writes: its own resolved bucket name, domain and
\* region, and the endpoint built from them
OwnRecord(p) ==
    [bucketName |-> inputs[p].bucketName,
     domain     |-> inputs[p].domain,
     region     |-> inputs[p].region,
     url        |-> "http://" \o inputs[p].bucketName \o ".s3-website-"
                       \o inputs[p].region \o ".amazonaws.com"]

\* every invocation that was started has returned
AllReturned ==
    /\ \A p \in Procs : pc[p] \in {"idle", "done"}
    /\ \E p \in Procs : pc[p] = "done"

\* C18: with two deploys interleaving on the same state record, the store
\* changes only in a save, and each save replaces the whole record by the
\* record of the deploy that makes it; so the store always holds the
\* complete record of the deploy that saved last, never fields of both.
C18_LastWriterWins ==
    [][ /\ \A p \in Procs :
              (pc[p] = "save" /\ pc'[p] = "done") => persisted' = OwnRecord(p)
        /\ persisted' # persisted =>
              \E p \in Procs : pc[p] = "save" /\ pc'[p] = "done" ]_vars

\* two deploys that both started from the empty state have interleaved and
\* returned: the store holds the complete record of a.com, while the records
\* of both domains and the redirect bucket of b.com are left behind
C18_Witness ==
    /\ pc[1] = "done" /\ pc[2] = "done"
    /\ before[1].persisted = EmptyState /\ before[2].persisted = EmptyState
    /\ persisted = OwnRecord(1)
    /\ persisted.domain = "a.com"
    /\ inputs[2].domain = "b.com"
    /\ DOMAIN records = {"a.com", "www.a.com", "b.com", "www.b.com"}
    /\ "www.b.com" \in DOMAIN buckets

====
